---- MODULE Spec2Model ----
(***************************************************************************)
(* Model of src/src/gemini.js: the retrying Gemini TTS transport           *)
(* (generateSpeech, generateSpeechStream) and the SSE frame decoder of the *)
(* streaming mode.  Bytes are integers 0..255, decoded text is a sequence  *)
(* of code points, an audio chunk is a sequence of bytes.                  *)
(***************************************************************************)
EXTENDS Integers, Sequences, FiniteSets, TLC

(***************************************************************************)
(* Bounds of the model.                                                    *)
(***************************************************************************)
\* largest value of the `retries` parameter that is explored
MaxRetries == 3

\* a push of the body carries 1..MaxPush bytes, or all that is left of it
MaxPush == 8

(***************************************************************************)
(* Text helpers.                                                           *)
(***************************************************************************)
NL == 10

ReplacementChar == 65533

ByteOrderMark == 65279

\* "data: "
DataPrefix ==
  <<100, 97, 116, 97, 58, 32>>

\* "[DONE]"
DoneSentinel ==
  <<91, 68, 79, 78, 69, 93>>

KeyCandidates ==
  <<99, 97, 110, 100, 105, 100, 97, 116, 101, 115>>

KeyContent ==
  <<99, 111, 110, 116, 101, 110, 116>>

KeyParts ==
  <<112, 97, 114, 116, 115>>

KeyInlineData ==
  <<105, 110, 108, 105, 110, 101, 68, 97, 116, 97>>

KeyData ==
  <<100, 97, 116, 97>>

\* String.prototype.trim: WhiteSpace and LineTerminator code points
TrimSpace ==
  {9, 10, 11, 12, 13, 32, 160, 5760, 8232, 8233, 8239, 8287, 12288, 65279}
    \cup (8192..8202)

RECURSIVE TrimStart(_)
TrimStart(s) ==
  IF s # <<>> /\ Head(s) \in TrimSpace THEN TrimStart(Tail(s)) ELSE s

RECURSIVE TrimEnd(_)
TrimEnd(s) ==
  IF s # <<>> /\ s[Len(s)] \in TrimSpace
    THEN TrimEnd(SubSeq(s, 1, Len(s) - 1))
    ELSE s

Trim(s) == TrimEnd(TrimStart(s))

StartsWith(s, p) ==
  Len(s) >= Len(p) /\ SubSeq(s, 1, Len(p)) = p

Slice(s, n) == SubSeq(s, n + 1, Len(s))

\* String.prototype.split('\n'): always at least one fragment
RECURSIVE SplitLines(_)

\* the fragment before the newline at i, then the fragments after it
SplitAt(s, i) ==
  <<SubSeq(s, 1, i - 1)>> \o SplitLines(SubSeq(s, i + 1, Len(s)))

FirstOf(nls) == CHOOSE k \in nls : \A m \in nls : k <= m

SplitLines(s) ==
  IF \A i \in 1..Len(s) : s[i] # NL THEN <<s>>
  ELSE SplitAt(s, FirstOf({i \in 1..Len(s) : s[i] = NL}))

\* faulty variant: the incomplete fragment is thrown away
PopLastDropped(frags) == <<>>

\* lines.pop() || '' : the incomplete trailing fragment kept in the buffer
PopLast(frags) == frags[Len(frags)]

\* faulty variant: the popped fragment is still in `lines`
FrontWithLast(frags) == frags

\* what is left in `lines` after the pop
Front(frags) == SubSeq(frags, 1, Len(frags) - 1)

(***************************************************************************)
(* TextDecoder (UTF-8, fatal: false, ignoreBOM: false).  The decoder state *)
(* is the WHATWG one: code point under construction, bytes needed, bytes   *)
(* seen, the bounds of the next continuation byte, and the BOM-seen flag.  *)
(***************************************************************************)
NewDecoder ==
  [cp |-> 0, need |-> 0, seen |-> 0, lo |-> 128, hi |-> 191, bom |-> FALSE]

\* a decoded code point goes to the output, except a leading BOM
Emit(d, out, c) ==
  IF ~d.bom /\ c = ByteOrderMark
    THEN [d |-> [d EXCEPT !.bom = TRUE], out |-> out]
    ELSE [d |-> [d EXCEPT !.bom = TRUE], out |-> Append(out, c)]

ResetDecoder(d) ==
  [d EXCEPT !.cp = 0, !.need = 0, !.seen = 0, !.lo = 128, !.hi = 191]

\* the output of two consecutive decoding runs
Join(left, right) == [out |-> left.out \o right.out, d |-> right.d]

RECURSIVE DecodeByte(_, _, _)
DecodeByte(d, out, b) ==
  IF d.need = 0 THEN
    IF b <= 127 THEN Emit(d, out, b)
    ELSE IF b >= 194 /\ b <= 223
      THEN [d |-> [d EXCEPT !.need = 1, !.cp = b % 32], out |-> out]
    ELSE IF b >= 224 /\ b <= 239
      THEN [d |-> [d EXCEPT !.need = 2, !.cp = b % 16,
                            !.lo = IF b = 224 THEN 160 ELSE 128,
                            !.hi = IF b = 237 THEN 159 ELSE 191],
            out |-> out]
    ELSE IF b >= 240 /\ b <= 244
      THEN [d |-> [d EXCEPT !.need = 3, !.cp = b % 8,
                            !.lo = IF b = 240 THEN 144 ELSE 128,
                            !.hi = IF b = 244 THEN 143 ELSE 191],
            out |-> out]
    ELSE Emit(d, out, ReplacementChar)
  ELSE IF b < d.lo \/ b > d.hi THEN
    \* invalid continuation: U+FFFD, then the byte is processed again
    LET r == Emit(ResetDecoder(d), out, ReplacementChar)
    IN  DecodeByte(r.d, r.out, b)
  ELSE
    LET c == d.cp * 64 + (b % 64)
    IN  IF d.seen + 1 = d.need
          THEN Emit(ResetDecoder(d), out, c)
          ELSE [d |-> [d EXCEPT !.cp = c, !.seen = d.seen + 1,
                                !.lo = 128, !.hi = 191],
                out |-> out]

RECURSIVE DecodeRange(_, _, _, _)

\* the second half of a range, after the first half gave `left`
DecodeRest(left, bytes, lo, hi) ==
  Join(left, DecodeRange(left.d, bytes, lo, hi))

\* the bytes lo..hi in order, starting from decoder state d
DecodeRange(d, bytes, lo, hi) ==
  IF lo > hi THEN [out |-> <<>>, d |-> d]
  ELSE IF lo = hi THEN DecodeByte(d, <<>>, bytes[lo])
  ELSE DecodeRest(DecodeRange(d, bytes, lo, (lo + hi) \div 2), bytes,
                  (lo + hi) \div 2 + 1, hi)

\* decoder.decode(value, { stream: true })
DecodeStream(d, bytes) == DecodeRange(d, bytes, 1, Len(bytes))

\* decoder.decode(): end of input, an incomplete character becomes U+FFFD
DecodeFlush(d) ==
  IF d.need # 0 THEN Emit(ResetDecoder(d), <<>>, ReplacementChar).out
  ELSE <<>>

(***************************************************************************)
(* JSON.parse on a sequence of code points.  A JSON value is a record      *)
(* [t, v]: t is the type tag, v the content (the code points of a string,  *)
(* the elements of an array, the [k, v] members of an object, <<n>> for a  *)
(* number).  The parser covers objects, arrays, strings with the simple    *)
(* escapes, integers and the three literals.                               *)
(***************************************************************************)
Undefined == [t |-> "undef", v |-> <<>>]

JsonNull == [t |-> "null", v |-> <<>>]

JsonSpace == {9, 10, 13, 32}

Digits == 48..57

ParseFail == [ok |-> FALSE, v |-> Undefined, i |-> 0]

ParseOk(val, next) == [ok |-> TRUE, v |-> val, i |-> next]

RECURSIVE SkipSpace(_, _)
SkipSpace(s, i) ==
  IF i <= Len(s) /\ s[i] \in JsonSpace THEN SkipSpace(s, i + 1) ELSE i

\* the characters a backslash may be followed by, and what they stand for
EscapeOf(c) ==
  CASE c = 34 -> 34 [] c = 92 -> 92 [] c = 47 -> 47 [] c = 98 -> 8
    [] c = 102 -> 12 [] c = 110 -> 10 [] c = 114 -> 13 [] c = 116 -> 9
    [] OTHER -> -1

\* s[i] is the first character after the opening quote
RECURSIVE ParseString(_, _, _)
ParseString(s, i, acc) ==
  IF i > Len(s) THEN ParseFail
  ELSE IF s[i] = 34 THEN ParseOk([t |-> "str", v |-> acc], i + 1)
  ELSE IF s[i] < 32 THEN ParseFail
  ELSE IF s[i] = 92 THEN
    IF i + 1 > Len(s) \/ EscapeOf(s[i + 1]) < 0 THEN ParseFail
    ELSE ParseString(s, i + 2, Append(acc, EscapeOf(s[i + 1])))
  ELSE ParseString(s, i + 1, Append(acc, s[i]))

RECURSIVE ParseDigits(_, _, _)
ParseDigits(s, i, n) ==
  IF i <= Len(s) /\ s[i] \in Digits
    THEN ParseDigits(s, i + 1, n * 10 + (s[i] - 48))
    ELSE [n |-> n, i |-> i]

\* s[i] is the first character of the number ('-' or a digit)
ParseNumber(s, i) ==
  LET neg == s[i] = 45
      j   == IF neg THEN i + 1 ELSE i
  IN  IF j > Len(s) \/ s[j] \notin Digits THEN ParseFail
      ELSE IF s[j] = 48
        THEN ParseOk([t |-> "num", v |-> <<0>>], j + 1)
      ELSE LET r == ParseDigits(s, j, 0)
           IN  ParseOk([t |-> "num", v |-> <<IF neg THEN 0 - r.n ELSE r.n>>],
                       r.i)

ParseLiteral(s, i, word, val) ==
  IF i + Len(word) - 1 <= Len(s) /\ SubSeq(s, i, i + Len(word) - 1) = word
    THEN ParseOk(val, i + Len(word))
    ELSE ParseFail

RECURSIVE ParseValue(_, _)
RECURSIVE ParseElements(_, _, _)
RECURSIVE ParseMembers(_, _, _)

\* s[i] is the first character of an element; acc the elements so far
ParseElements(s, i, acc) ==
  LET r == ParseValue(s, i)
      j == SkipSpace(s, r.i)
  IN  IF ~r.ok \/ j > Len(s) THEN ParseFail
      ELSE IF s[j] = 93
        THEN ParseOk([t |-> "arr", v |-> Append(acc, r.v)], j + 1)
      ELSE IF s[j] = 44 THEN ParseElements(s, j + 1, Append(acc, r.v))
      ELSE ParseFail

\* i is where the next member's key is expected; acc the members so far
ParseMembers(s, i, acc) ==
  LET j == SkipSpace(s, i)
  IN  IF j > Len(s) \/ s[j] # 34 THEN ParseFail
      ELSE
        LET k == ParseString(s, j + 1, <<>>)
            c == SkipSpace(s, k.i)
        IN  IF ~k.ok \/ c > Len(s) \/ s[c] # 58 THEN ParseFail
            ELSE
              LET r == ParseValue(s, c + 1)
                  e == SkipSpace(s, r.i)
                  m == Append(acc, [k |-> k.v.v, v |-> r.v])
              IN  IF ~r.ok \/ e > Len(s) THEN ParseFail
                  ELSE IF s[e] = 125
                    THEN ParseOk([t |-> "obj", v |-> m], e + 1)
                  ELSE IF s[e] = 44 THEN ParseMembers(s, e + 1, m)
                  ELSE ParseFail

ParseValue(s, i0) ==
  LET i == SkipSpace(s, i0)
  IN  IF i > Len(s) THEN ParseFail
      ELSE IF s[i] = 123 THEN
        LET j == SkipSpace(s, i + 1)
        IN  IF j <= Len(s) /\ s[j] = 125
              THEN ParseOk([t |-> "obj", v |-> <<>>], j + 1)
              ELSE ParseMembers(s, i + 1, <<>>)
      ELSE IF s[i] = 91 THEN
        LET j == SkipSpace(s, i + 1)
        IN  IF j <= Len(s) /\ s[j] = 93
              THEN ParseOk([t |-> "arr", v |-> <<>>], j + 1)
              ELSE ParseElements(s, i + 1, <<>>)
      ELSE IF s[i] = 34 THEN ParseString(s, i + 1, <<>>)
      ELSE IF s[i] = 45 \/ s[i] \in Digits THEN ParseNumber(s, i)
      ELSE IF s[i] = 116
        THEN ParseLiteral(s, i, <<116, 114, 117, 101>>,
                          [t |-> "true", v |-> <<>>])
      ELSE IF s[i] = 102
        THEN ParseLiteral(s, i, <<102, 97, 108, 115, 101>>,
                          [t |-> "false", v |-> <<>>])
      ELSE IF s[i] = 110
        THEN ParseLiteral(s, i, <<110, 117, 108, 108>>, JsonNull)
      ELSE ParseFail

\* JSON.parse(text): one value, nothing but white space after it;
\* ok = FALSE stands for the SyntaxError
JSONParse(s) ==
  LET r == ParseValue(s, 1)
  IN  IF r.ok /\ SkipSpace(s, r.i) > Len(s) THEN r ELSE ParseFail

(***************************************************************************)
(* data?.candidates?.[0]?.content?.parts?.[0]?.inlineData?.data            *)
(***************************************************************************)
RECURSIVE LookUp(_, _, _)
LookUp(members, key, i) ==
  IF i = 0 THEN Undefined
  ELSE IF members[i].k = key THEN members[i].v
  ELSE LookUp(members, key, i - 1)

\* x?.key : undefined on null and undefined, a property read otherwise
GetProp(x, key) ==
  IF x.t = "obj" THEN LookUp(x.v, key, Len(x.v)) ELSE Undefined

\* x?.[0]
GetFirst(x) ==
  IF x.t = "arr" THEN (IF x.v = <<>> THEN Undefined ELSE x.v[1])
  ELSE IF x.t = "str"
    THEN (IF x.v = <<>> THEN Undefined ELSE [t |-> "str", v |-> <<x.v[1]>>])
  ELSE IF x.t = "obj" THEN LookUp(x.v, <<48>>, Len(x.v))
  ELSE Undefined

ExtractAudio(data) ==
  GetProp(GetProp(GetFirst(GetProp(GetProp(GetFirst(
    GetProp(data, KeyCandidates)), KeyContent), KeyParts)),
    KeyInlineData), KeyData)

\* if (audioData) / if (!audioData)
Truthy(x) ==
  CASE x.t \in {"undef", "null", "false"} -> FALSE
    [] x.t = "str" -> x.v # <<>>
    [] x.t = "num" -> x.v # <<0>>
    [] OTHER -> TRUE

(***************************************************************************)
(* Buffer.from(audioData, 'base64'): characters outside the alphabet are   *)
(* skipped, '=' ends the input, a dangling single sextet yields no byte.   *)
(***************************************************************************)
Sextet(c) ==
  CASE c >= 65 /\ c <= 90 -> c - 65
    [] c >= 97 /\ c <= 122 -> c - 71
    [] c \in Digits -> c + 4
    [] c = 43 \/ c = 45 -> 62
    [] c = 47 \/ c = 95 -> 63
    [] OTHER -> -1

RECURSIVE Sextets(_, _, _)
Sextets(s, i, acc) ==
  IF i > Len(s) \/ s[i] = 61 THEN acc
  ELSE IF Sextet(s[i]) < 0 THEN Sextets(s, i + 1, acc)
  ELSE Sextets(s, i + 1, Append(acc, Sextet(s[i])))

RECURSIVE Groups(_, _)
Groups(x, i) ==
  LET n == Len(x) - i + 1
  IN  IF n >= 4 THEN
        <<x[i] * 4 + x[i + 1] \div 16,
          (x[i + 1] % 16) * 16 + x[i + 2] \div 4,
          (x[i + 2] % 4) * 64 + x[i + 3]>> \o Groups(x, i + 4)
      ELSE IF n = 3 THEN
        <<x[i] * 4 + x[i + 1] \div 16,
          (x[i + 1] % 16) * 16 + x[i + 2] \div 4>>
      ELSE IF n = 2 THEN <<x[i] * 4 + x[i + 1] \div 16>>
      ELSE <<>>

Base64Decode(s) == Groups(Sextets(s, 1, <<>>), 1)

\* Buffer.from(x, 'base64'): a string is decoded, an array gives one byte
\* per element, anything else is a TypeError (ok = FALSE)
BufferFrom(x) ==
  IF x.t = "str" THEN [ok |-> TRUE, bytes |-> Base64Decode(x.v)]
  ELSE IF x.t = "arr" THEN
    [ok |-> TRUE,
     bytes |-> [k \in 1..Len(x.v) |->
                  IF x.v[k].t = "num" THEN x.v[k].v[1] % 256 ELSE 0]]
  ELSE [ok |-> FALSE, bytes |-> <<>>]

(***************************************************************************)
(* processLine: what one SSE line does.  kind is                           *)
(*   "ignored"  the line does not start with "data: "                      *)
(*   "done"     the payload is the [DONE] sentinel                         *)
(*   "noaudio"  the payload parses, the audio field is absent or falsy     *)
(*   "emit"     the payload carries audio: chunk goes to onChunk           *)
(*   "caught"   JSON.parse or Buffer.from threw inside the try             *)
(***************************************************************************)
\* faulty variant: the error leaves processLine
CatchParseErrorRethrown == "throw"

\* catch (parseError) { logger.debug(...) }: the error stops here
CatchParseError == "caught"

LineResult(kind, chunk) == [kind |-> kind, chunk |-> chunk]

\* const pcmChunk = Buffer.from(...); totalBytes += ...; await onChunk(pcmChunk)
HandleChunk(pcmChunk) ==
  IF ~pcmChunk.ok THEN LineResult(CatchParseError, <<>>)
  ELSE LineResult("emit", pcmChunk.bytes)

\* if (audioData) { ... }
HandleAudio(audioData) ==
  IF ~Truthy(audioData) THEN LineResult("noaudio", <<>>)
  ELSE HandleChunk(BufferFrom(audioData))

\* try { const data = JSON.parse(jsonStr); ... } catch (parseError) { ... }
HandleData(data) ==
  IF ~data.ok THEN LineResult(CatchParseError, <<>>)
  ELSE HandleAudio(ExtractAudio(data.v))

\* faulty variant: the sentinel is handed to the sink as an empty chunk
DoneLineEmitted == LineResult("emit", <<>>)

\* return; (the sentinel ends processLine at once)
DoneLine == LineResult("done", <<>>)

\* if (jsonStr === '[DONE]') return;
HandlePayload(jsonStr) ==
  IF jsonStr = DoneSentinel THEN DoneLine
  ELSE HandleData(JSONParse(jsonStr))

ProcessLine(line) ==
  IF ~StartsWith(line, DataPrefix) THEN LineResult("ignored", <<>>)
  ELSE HandlePayload(Trim(Slice(line, 6)))

\* for (const line of lines) await processLine(line): runs up to the next
\* suspension (a chunk handed to onChunk), an escaping error, or the end
RECURSIVE RunLines(_, _, _)

\* faulty variant: onChunk(pcmChunk) is called without await
SinkAwaitedNever == FALSE

\* await onChunk(pcmChunk): processLine is suspended until the sink settles
SinkAwaited == TRUE

\* the chunk was handed to onChunk; out: the chunks handed over in this run
AfterCall(ls, d, out) ==
  IF SinkAwaited
    THEN [stop |-> "sink", rest |-> Tail(ls), disp |-> d, out |-> out]
  ELSE RunLines(Tail(ls), d, out)

\* after processLine(Head(ls)) gave r; d: the lines processed so far
AfterLine(r, ls, d, out) ==
  IF r.kind = "emit"
    THEN AfterCall(ls, d, Append(out, r.chunk))
  ELSE IF r.kind = "throw"
    THEN [stop |-> "throw", rest |-> <<>>, disp |-> d, out |-> out]
  ELSE RunLines(Tail(ls), d, out)

RunLines(ls, disp, out) ==
  IF ls = <<>>
    THEN [stop |-> "idle", rest |-> <<>>, disp |-> disp, out |-> out]
  ELSE AfterLine(ProcessLine(Head(ls)), ls, Append(disp, Head(ls)), out)

(***************************************************************************)
(* Responses the provider can give.                                        *)
(***************************************************************************)
\* {"candidates":[{"content":{"parts":[{"inlineData":{"data":"
FramePrefix ==
  <<123, 34, 99, 97, 110, 100, 105, 100, 97, 116, 101, 115, 34, 58, 91,
    123, 34, 99, 111, 110, 116, 101, 110, 116, 34, 58, 123, 34, 112, 97,
    114, 116, 115, 34, 58, 91, 123, 34, 105, 110, 108, 105, 110, 101, 68,
    97, 116, 97, 34, 58, 123, 34, 100, 97, 116, 97, 34, 58, 34>>

\* "}}]}}]}
FrameSuffix ==
  <<34, 125, 125, 93, 125, 125, 93, 125>>

AudioFrame(b64) == FramePrefix \o b64 \o FrameSuffix

\* "SGVsbG8=", the base64 text of "Hello"
B64Hello == <<83, 71, 86, 115, 98, 71, 56, 61>>

Hello == <<72, 101, 108, 108, 111>>

\* "QUI=", the base64 text of "AB"
B64AB == <<81, 85, 73, 61>>

\* {"candidates":[]} : a well-formed frame without audio
FrameNoAudio ==
  <<123, 34, 99, 97, 110, 100, 105, 100, 97, 116, 101, 115, 34, 58, 91, 93,
    125>>

\* {not json
FrameMalformed ==
  <<123, 110, 111, 116, 32, 106, 115, 111, 110>>

\* two events, each followed by a blank line
BodyTwoFrames ==
  DataPrefix \o AudioFrame(B64AB) \o <<10, 10>>
    \o DataPrefix \o AudioFrame(B64Hello) \o <<10, 10>>

\* the last frame is not followed by a newline
BodyNoTrailingNewline ==
  DataPrefix \o AudioFrame(B64AB) \o <<10>>
    \o DataPrefix \o AudioFrame(B64Hello)

\* data: {not json, then a valid line
BodyMalformedThenValid ==
  DataPrefix \o FrameMalformed \o <<10>>
    \o DataPrefix \o AudioFrame(B64Hello) \o <<10>>

\* CRLF line ends and the [DONE] sentinel
BodyDoneSentinel ==
  DataPrefix \o AudioFrame(B64AB) \o <<13, 10, 13, 10>>
    \o DataPrefix \o DoneSentinel \o <<13, 10>>

\* a comment line with U+00E9, a frame followed by U+00A0, a frame without
\* audio, and a body cut in the middle of a two-byte character
BodyMultiByte ==
  <<58, 32, 195, 169, 10>>
    \o DataPrefix \o AudioFrame(B64AB) \o <<194, 160, 10>>
    \o DataPrefix \o FrameNoAudio \o <<10, 195>>

StreamBodies ==
  {BodyTwoFrames, BodyNoTrailingNewline, BodyMalformedThenValid,
   BodyDoneSentinel, BodyMultiByte}

\* one frame, no newline after it
BodyOneFrame == DataPrefix \o AudioFrame(B64AB)

\* one frame and the newline that ends its line
BodyOneLine == BodyOneFrame \o <<10>>

ShortBodies == {BodyOneFrame, BodyOneLine}

\* bodies of the non-streaming endpoint
SingleBodies == {AudioFrame(B64Hello), FrameNoAudio, FrameMalformed}

\* response.status values; 0 in `outcomes` is a network error, -1 an abort
Statuses == {200, 404, 500, 503}

NetworkFailure == 0

Cancelled == -1

ResponseOk(st) == st >= 200 /\ st <= 299

(***************************************************************************)
(* State of one invocation.                                                *)
(***************************************************************************)
VARIABLES
  mode,        \* "single": generateSpeech, "stream": generateSpeechStream
  apiKey,      \* TRUE when the apiKey argument is truthy
  retries,     \* the retries argument
  hasSignal,   \* TRUE when an AbortSignal was passed
  aborted,     \* signal.aborted
  pc,          \* where the invocation is suspended, or how it settled
  attempt,     \* the loop variable
  sleepLeft,   \* seconds left of the pending sleep()
  lastError,   \* the variable lastError
  error,       \* what the invocation rejected with
  result,      \* what generateSpeech resolved with
  status,      \* response.status
  body,        \* the bytes of the response body (streaming: the event
               \* stream the provider has for this request)
  pos,         \* bytes of the body already read
  decoder,     \* state of the TextDecoder
  buffer,      \* the variable buffer
  lines,       \* lines of the current push not yet processed
  eof,         \* reader.read() has returned done
  totalBytes,  \* the variable totalBytes
  reader,      \* "none", "locked" (getReader) or "released" (releaseLock)
  inFlight,    \* calls of onChunk that have not settled yet
  requests,    \* history: requests put on the wire
  outcomes,    \* history: outcome of each attempt
  delays,      \* history: delays passed to sleep()
  chunks,      \* history: chunks handed to onChunk
  dispatched,  \* history: lines passed to processLine
  flushCalls,  \* history: calls of processLine on the end-of-stream rest
  releases,    \* history: calls of reader.releaseLock()
  sinkErrors,  \* history: rejections of onChunk
  cutChar,     \* history: a push ended inside a multi-byte character
  abortAt,     \* history: pc at the time of the abort, "none" before
  snap         \* history: counters at the time of the abort

callVars == <<mode, apiKey, retries, hasSignal>>

retryVars == <<attempt, sleepLeft, lastError, status, requests, outcomes,
               delays>>

streamVars == <<body, pos, decoder, buffer, lines, eof, totalBytes, reader,
                inFlight, chunks, dispatched, flushCalls, releases,
                sinkErrors, cutChar>>

abortVars == <<aborted, abortAt, snap>>

vars == <<callVars, retryVars, streamVars, abortVars, pc, error, result>>

NoError == [name |-> "none", status |-> 0, attempt |-> 0]

Err(name, st, k) == [name |-> name, status |-> st, attempt |-> k]

NoSnap == [attempt |-> 0, sleepLeft |-> 0, requests |-> 0, delays |-> 0,
           chunks |-> 0]

Settled == pc \in {"resolved", "rejected"}

InitWith(modes, rs, bodies) ==
  /\ mode \in modes
  /\ apiKey \in BOOLEAN
  /\ retries \in rs
  /\ hasSignal \in (IF mode = "stream" THEN BOOLEAN ELSE {FALSE})
  /\ aborted = FALSE
  /\ pc = "start"
  /\ attempt = 0
  /\ sleepLeft = 0
  /\ lastError = NoError
  /\ error = NoError
  /\ result = <<>>
  /\ status = 0
  /\ body \in (IF mode = "stream" THEN bodies ELSE {<<>>})
  /\ pos = 0
  /\ decoder = NewDecoder
  /\ buffer = <<>>
  /\ lines = <<>>
  /\ eof = FALSE
  /\ totalBytes = 0
  /\ reader = "none"
  /\ inFlight = 0
  /\ requests = 0
  /\ outcomes = <<>>
  /\ delays = <<>>
  /\ chunks = <<>>
  /\ dispatched = <<>>
  /\ flushCalls = 0
  /\ releases = 0
  /\ sinkErrors = 0
  /\ cutChar = FALSE
  /\ abortAt = "none"
  /\ snap = NoSnap

\* either function, any retries argument, a one-frame event stream
Init == InitWith({"single", "stream"}, 0..MaxRetries, ShortBodies)

(***************************************************************************)
(* The retry loop of both functions.                                       *)
(***************************************************************************)
\* faulty variant: a constant delay
BackoffDelayFixed(k) == 1000

\* const delay = attempt * 1000
BackoffDelay(k) == k * 1000

\* faulty variant: off by one, a delay follows the last attempt too
RetriesLeftInclusive(k, n) == k <= n

\* if (attempt < retries)
RetriesLeft(k, n) == k < n

\* faulty variant: cancellation is handled like any other failure
IsCancellationIgnored(e, sig) == FALSE

\* if (error.name === 'AbortError' || signal?.aborted)
IsCancellation(e, sig) == e.name = "AbortError" \/ sig

Reject(e) ==
  /\ pc' = "rejected"
  /\ error' = e

\* the catch block of the loop, entered with error e in iteration k
Catch(e, k) ==
  /\ lastError' = e
  /\ IF mode = "stream" /\ IsCancellation(e, hasSignal /\ aborted)
       THEN Reject(e) /\ UNCHANGED <<delays, sleepLeft>>
     ELSE IF RetriesLeft(k, retries)
       THEN /\ delays' = Append(delays, BackoffDelay(k))
            /\ sleepLeft' = BackoffDelay(k) \div 1000
            /\ pc' = "sleep"
            /\ UNCHANGED error
     ELSE Reject(e) /\ UNCHANGED <<delays, sleepLeft>>

\* one turn of `for (attempt...; attempt <= retries; ...)` up to the fetch
BeginAttempt(k) ==
  /\ attempt' = k
  /\ IF k > retries THEN
       \* the loop body never ran: generateSpeech throws the unset
       \* lastError, generateSpeechStream reads response.body of undefined
       /\ Reject(IF mode = "stream" THEN Err("TypeError", 0, 0)
                 ELSE IF lastError = NoError THEN Err("undefined", 0, 0)
                 ELSE lastError)
       /\ UNCHANGED <<sleepLeft, lastError, requests, outcomes, delays>>
     ELSE IF hasSignal /\ aborted THEN
       \* fetch with an aborted signal rejects without sending anything
       /\ outcomes' = Append(outcomes, Cancelled)
       /\ Catch(Err("AbortError", 0, k), k)
       /\ UNCHANGED requests
     ELSE
       /\ requests' = requests + 1
       /\ pc' = "fetch"
       /\ UNCHANGED <<sleepLeft, lastError, outcomes, delays, error>>

\* faulty variant: the apiKey argument is not looked at
KeyMissingIgnored(key) == FALSE

\* if (!apiKey)
KeyMissing(key) == ~key

\* entry of both functions: the apiKey check, then the first attempt
Start ==
  /\ pc = "start"
  /\ IF KeyMissing(apiKey)
       THEN /\ Reject(Err("ConfigError", 0, 0))
            /\ UNCHANGED retryVars
       ELSE BeginAttempt(1) /\ UNCHANGED status
  /\ UNCHANGED <<callVars, streamVars, abortVars, result>>

\* const reader = response.body.getReader() and the decoder state
OpenReader ==
  /\ reader' = "locked"
  /\ pc' = "read"
  /\ UNCHANGED <<body, pos, decoder, buffer, lines, eof, totalBytes,
                 inFlight, chunks, dispatched, flushCalls, releases,
                 sinkErrors, cutChar>>

\* fetch resolves with a response
FetchResponse ==
  /\ pc = "fetch"
  /\ ~aborted
  /\ \E st \in Statuses :
       /\ status' = st
       /\ outcomes' = Append(outcomes, st)
       /\ IF ~ResponseOk(st)
            THEN pc' = "text" /\ UNCHANGED streamVars
          ELSE IF mode = "single"
            THEN /\ \E b \in SingleBodies : body' = b
                 /\ pc' = "json"
                 /\ UNCHANGED <<pos, decoder, buffer, lines, eof, totalBytes,
                                reader, inFlight, chunks, dispatched,
                                flushCalls, releases, sinkErrors, cutChar>>
          ELSE OpenReader
  /\ UNCHANGED <<callVars, abortVars, attempt, sleepLeft, lastError,
                 requests, delays, error, result>>

\* fetch rejects: the network failed
FetchFail ==
  /\ pc = "fetch"
  /\ ~aborted
  /\ outcomes' = Append(outcomes, NetworkFailure)
  /\ Catch(Err("FetchError", 0, attempt), attempt)
  /\ UNCHANGED <<callVars, streamVars, abortVars, attempt, status, requests,
                 result>>

\* fetch rejects because the signal was aborted while it was in flight
FetchAbort ==
  /\ pc = "fetch"
  /\ aborted
  /\ outcomes' = Append(outcomes, Cancelled)
  /\ Catch(Err("AbortError", 0, attempt), attempt)
  /\ UNCHANGED <<callVars, streamVars, abortVars, attempt, status, requests,
                 result>>

\* !response.ok: await response.text(), then throw (5xx and 4xx alike)
ErrorText ==
  /\ pc = "text"
  /\ Catch(IF aborted THEN Err("AbortError", 0, attempt)
           ELSE Err("ApiError", status, attempt), attempt)
  /\ UNCHANGED <<callVars, streamVars, abortVars, attempt, status, requests,
                 outcomes, result>>

\* one second of a pending sleep() passes
Tick ==
  /\ pc = "sleep"
  /\ sleepLeft > 0
  /\ sleepLeft' = sleepLeft - 1
  /\ UNCHANGED <<callVars, streamVars, abortVars, attempt, lastError, status,
                 requests, outcomes, delays, pc, error, result>>

\* faulty variant: the loop variable is not incremented
NextAttemptSame(k) == k

\* attempt++
NextAttempt(k) == k + 1

\* the sleep() timer fires and the loop goes to the next attempt
Wake ==
  /\ pc = "sleep"
  /\ sleepLeft = 0
  /\ BeginAttempt(NextAttempt(attempt))
  /\ UNCHANGED <<callVars, streamVars, abortVars, status, result>>

\* response.text() as it is decoded by response.json()
DecodeAll(bytes) ==
  LET r == DecodeStream(NewDecoder, bytes)
  IN  r.out \o DecodeFlush(r.d)

\* how the statements after the fetch end: "ok" with the buffer returned,
\* or the name of the error thrown
AudioResult(kind, bytes) == [kind |-> kind, bytes |-> bytes]

\* const pcmBuffer = Buffer.from(audioData, 'base64'); return pcmBuffer
JsonBuffer(pcmBuffer) ==
  IF ~pcmBuffer.ok THEN AudioResult("TypeError", <<>>)
  ELSE AudioResult("ok", pcmBuffer.bytes)

\* if (!audioData) throw new Error('No audio data received from Gemini API')
JsonAudio(audioData) ==
  IF ~Truthy(audioData) THEN AudioResult("NoAudio", <<>>)
  ELSE JsonBuffer(BufferFrom(audioData))

\* const data = await response.json()
JsonData(data) ==
  IF ~data.ok THEN AudioResult("SyntaxError", <<>>)
  ELSE JsonAudio(ExtractAudio(data.v))

\* lines 75-90 on each body the endpoint can answer with
SingleResults == [b \in SingleBodies |-> JsonData(JSONParse(DecodeAll(b)))]

\* return pcmBuffer, or the catch block entered with the error thrown
JsonSettle(r) ==
  IF r.kind # "ok"
    THEN Catch(Err(r.kind, status, attempt), attempt) /\ UNCHANGED result
  ELSE /\ result' = r.bytes
       /\ pc' = "resolved"
       /\ UNCHANGED <<lastError, delays, sleepLeft, error>>

\* generateSpeech after a 2xx: response.json(), the audio field, the buffer
ReadJson ==
  /\ pc = "json"
  /\ JsonSettle(SingleResults[body])
  /\ UNCHANGED <<callVars, streamVars, abortVars, attempt, status, requests,
                 outcomes>>

\* the caller triggers the cancellation handle
Abort ==
  /\ hasSignal
  /\ ~aborted
  /\ pc \in {"start", "fetch", "text", "sleep", "read", "sink"}
  /\ aborted' = TRUE
  /\ abortAt' = pc
  /\ snap' = [attempt |-> attempt, sleepLeft |-> sleepLeft,
              requests |-> requests, delays |-> Len(delays),
              chunks |-> Len(chunks)]
  /\ UNCHANGED <<callVars, retryVars, streamVars, pc, error, result>>

(***************************************************************************)
(* Body consumption of generateSpeechStream.                               *)
(***************************************************************************)
\* faulty variant: releaseLock() at the end of the try block only
RunsFinallyOnlyNormal(how) == how = "normal"

\* try { ... } finally { reader.releaseLock() }: the paths that release
RunsFinally(how) == how \in {"normal", "throw"}

\* faulty variant: what is left in the buffer at the end is dropped
EndOfStreamRestSkipped(buf) == <<>>

\* buffer.trim(), the text handed to processLine after the stream ended
EndOfStreamRest(buf) == Trim(buf)

\* faulty variant: an error of the body loop goes back to the retry loop
BodyErrorRetried == "sleep"

\* try { ... } finally { ... } without a catch, after the retry loop: an
\* error of the body loop rejects the invocation
BodyErrorSurfaced == "rejected"

\* leaving the try block: normally, or with error e
Exit(how, e) ==
  /\ reader' = IF RunsFinally(how) THEN "released" ELSE reader
  /\ releases' = IF RunsFinally(how) THEN releases + 1 ELSE releases
  /\ pc' = IF how = "normal" THEN "resolved" ELSE BodyErrorSurfaced
  /\ error' = e

\* totalBytes += pcmChunk.length, for each chunk of q
RECURSIVE TotalLength(_)
TotalLength(q) ==
  IF q = <<>> THEN 0 ELSE Len(Head(q)) + TotalLength(Tail(q))

\* the state after the run r of the line loop; atEnd: done was read;
\* settled: the calls of onChunk that settled before the run
Suspend(r, atEnd, settled) ==
  /\ dispatched' = r.disp
  /\ lines' = r.rest
  /\ totalBytes' = totalBytes + TotalLength(r.out)
  /\ chunks' = chunks \o r.out
  /\ inFlight' = inFlight - settled + Len(r.out)
  /\ IF r.stop = "sink" THEN
       /\ pc' = "sink"
       /\ UNCHANGED <<reader, releases, error>>
     ELSE IF r.stop = "throw" THEN
       Exit("throw", Err("SyntaxError", status, attempt))
     ELSE IF atEnd THEN
       Exit("normal", NoError)
     ELSE
       /\ pc' = "read"
       /\ UNCHANGED <<reader, releases, error>>

\* process the lines ls up to the next suspension
Continue(ls, atEnd, settled) ==
  Suspend(RunLines(ls, dispatched, <<>>), atEnd, settled)

\* the sizes of the next push when `left` bytes of the body are left
PushSizes(left) ==
  {n \in 1..left : n <= MaxPush} \cup {left}

\* const lines = buffer.split('\n'); buffer = lines.pop() || ''; the loop
TakeLines(frags) ==
  /\ buffer' = PopLast(frags)
  /\ Continue(Front(frags), FALSE, 0)

\* faulty variant: buffer = ..., the pending partial line is overwritten
AccumulateOverwrite(buf, text) == text

\* buffer += ...
Accumulate(buf, text) == buf \o text

\* buffer += decoder.decode(value, { stream: true }), r being the decoding
Push(n, r) ==
  /\ pos' = pos + n
  /\ decoder' = r.d
  /\ cutChar' = (cutChar \/ (r.d.need # 0 /\ pos + n < Len(body)))
  /\ TakeLines(SplitLines(Accumulate(buffer, r.out)))

\* reader.read() resolves with the next n bytes of the body
Read ==
  /\ pc = "read"
  /\ ~aborted
  /\ pos < Len(body)
  /\ \E n \in PushSizes(Len(body) - pos) :
       Push(n, DecodeStream(decoder, SubSeq(body, pos + 1, pos + n)))
  /\ UNCHANGED <<callVars, retryVars, abortVars, body, eof, flushCalls,
                 sinkErrors, result>>

\* if (buffer.trim()) await processLine(buffer.trim())
FlushRest(rest) ==
  IF rest # <<>>
    THEN flushCalls' = flushCalls + 1 /\ Continue(<<rest>>, TRUE, 0)
    ELSE UNCHANGED flushCalls /\ Continue(<<>>, TRUE, 0)

\* buffer += decoder.decode(); break
Flush(buf) ==
  /\ buffer' = buf
  /\ FlushRest(EndOfStreamRest(buf))

\* reader.read() resolves with done: flush the decoder, process the rest
ReadDone ==
  /\ pc = "read"
  /\ ~aborted
  /\ pos = Len(body)
  /\ eof' = TRUE
  /\ decoder' = ResetDecoder(decoder)
  /\ Flush(Accumulate(buffer, DecodeFlush(decoder)))
  /\ UNCHANGED <<callVars, retryVars, abortVars, body, pos, sinkErrors,
                 cutChar, result>>

\* reader.read() rejects: the connection broke in the middle of the body
ReadFail ==
  /\ pc = "read"
  /\ ~aborted
  /\ Exit("throw", Err("ReadError", status, attempt))
  /\ UNCHANGED <<callVars, retryVars, abortVars, body, pos, decoder, buffer,
                 lines, eof, totalBytes, inFlight, chunks, dispatched,
                 flushCalls, sinkErrors, cutChar, result>>

\* reader.read() rejects because the signal aborted the body stream
ReadAbort ==
  /\ pc = "read"
  /\ aborted
  /\ Exit("throw", Err("AbortError", 0, attempt))
  /\ UNCHANGED <<callVars, retryVars, abortVars, body, pos, decoder, buffer,
                 lines, eof, totalBytes, inFlight, chunks, dispatched,
                 flushCalls, sinkErrors, cutChar, result>>

\* onChunk settles: fulfilled
SinkAck ==
  /\ pc = "sink"
  /\ Continue(lines, eof, 1)
  /\ UNCHANGED <<callVars, retryVars, abortVars, body, pos, decoder, buffer,
                 eof, flushCalls, sinkErrors, cutChar, result>>

\* faulty variant: onChunk is called after the try block of processLine
SinkCallOutsideTry == FALSE

\* try { ... await onChunk(pcmChunk) ... } catch (parseError) { ... }
SinkCallInTry == TRUE

\* what becomes of a rejection of onChunk
SinkErrorResult == IF SinkCallInTry THEN CatchParseError ELSE "throw"

\* onChunk settles: rejected, which the catch of processLine swallows
SinkThrow ==
  /\ pc = "sink"
  /\ sinkErrors' = sinkErrors + 1
  /\ IF SinkErrorResult = "caught"
       THEN Continue(lines, eof, 1)
     ELSE /\ Exit("throw", Err("SinkError", status, attempt))
          /\ inFlight' = inFlight - 1
          /\ UNCHANGED <<dispatched, lines, totalBytes, chunks>>
  /\ UNCHANGED <<callVars, retryVars, abortVars, body, pos, decoder, buffer,
                 eof, flushCalls, cutChar, result>>

Next ==
  \/ Start
  \/ FetchResponse
  \/ FetchFail
  \/ FetchAbort
  \/ ErrorText
  \/ Tick
  \/ Wake
  \/ ReadJson
  \/ Abort
  \/ Read
  \/ ReadDone
  \/ ReadFail
  \/ ReadAbort
  \/ SinkAck
  \/ SinkThrow

Spec == Init /\ [][Next]_vars

(***************************************************************************)
(* generateSpeechStream called with retries = 1 on each of the event       *)
(* streams of StreamBodies.  With one attempt there is no backoff, and     *)
(* ReadJson belongs to generateSpeech, so these are all the steps.         *)
(***************************************************************************)
InitDecode == InitWith({"stream"}, {1}, StreamBodies)

NextDecode ==
  \/ Start
  \/ FetchResponse
  \/ FetchFail
  \/ FetchAbort
  \/ ErrorText
  \/ Abort
  \/ Read
  \/ ReadDone
  \/ ReadFail
  \/ ReadAbort
  \/ SinkAck
  \/ SinkThrow

SpecDecode == InitDecode /\ [][NextDecode]_vars

(***************************************************************************)
(* The environment of an invocation that is not left waiting: the request  *)
(* in flight is answered or fails, response.text() and response.json()     *)
(* settle, the timer of sleep() fires, reader.read() settles (the body is  *)
(* finite, so it ends with done) and onChunk settles.  The caller is free  *)
(* to abort or not.                                                        *)
(***************************************************************************)
Progress ==
  \/ Start
  \/ FetchResponse
  \/ FetchFail
  \/ FetchAbort
  \/ ErrorText
  \/ Tick
  \/ Wake
  \/ ReadJson
  \/ ReadFail
  \/ ReadAbort
  \/ Read
  \/ ReadDone
  \/ SinkAck
  \/ SinkThrow

Fairness == WF_vars(Progress)

SpecLive == Init /\ [][Next]_vars /\ Fairness

(***************************************************************************)
(* Properties.                                                             *)
(***************************************************************************)
Last(q) == q[Len(q)]

IsPrefix(p, q) == Len(p) <= Len(q) /\ SubSeq(q, 1, Len(p)) = p

ClientError(st) == st >= 400 /\ st <= 499

\* C1: a 4xx status ends the invocation: it is the last attempt, no backoff
\* delay follows it (a 4xx on attempt i leaves i requests and i - 1 delays),
\* and the invocation is reading the error text or has rejected.
C1_ClientErrorNotRetried ==
  \A i \in 1..Len(outcomes) :
    ClientError(outcomes[i]) =>
      /\ i = Len(outcomes)
      /\ requests = i
      /\ Len(delays) = i - 1
      /\ pc \in {"text", "rejected"}

\* the 2xx body of generateSpeech carries audio
SingleBodyOk(b) ==
  LET data == JSONParse(DecodeAll(b))
  IN  data.ok /\ Truthy(ExtractAudio(data.v)) /\ BufferFrom(ExtractAudio(data.v)).ok

\* attempts 1..k-1 returned 500 and attempt k returned 200
RecoveredAt(k) ==
  /\ Len(outcomes) = k
  /\ outcomes[k] = 200
  /\ \A i \in 1..(k - 1) : outcomes[i] = 500

\* C2: when attempts 1..k-1 return 500 and attempt k returns 2xx (with a
\* well-formed body), exactly k requests were sent, the delays are 1000,
\* 2000, ..., (k-1)*1000 in this order, nothing is waited for after attempt
\* k, and the invocation does not reject unless the body read fails or the
\* caller cancels.
C2_RecoveryAfterServerErrors ==
  \A k \in 1..retries :
    (RecoveredAt(k) /\ (mode = "single" => SingleBodyOk(body))) =>
      /\ requests = k
      /\ delays = [i \in 1..(k - 1) |-> i * 1000]
      /\ pc \in {"json", "read", "sink", "resolved", "rejected"}
      /\ pc = "rejected" => error.name \in {"ReadError", "AbortError"}

C2_Witness ==
  /\ RecoveredAt(3)
  /\ pc = "resolved"
  /\ mode = "single"

AllServiceUnavailable ==
  \A i \in 1..Len(outcomes) : outcomes[i] = 503

\* C3: when every attempt returns 503 and nobody cancels, the invocation
\* rejects after exactly `retries` requests with the error of attempt
\* `retries`, after retries - 1 delays: none follows the last attempt.
C3_ExhaustionAfterServerErrors ==
  (apiKey /\ AllServiceUnavailable /\ ~aborted) =>
    /\ pc # "resolved"
    /\ Len(outcomes) = retries => pc \in {"start", "text", "rejected"}
    /\ pc = "rejected" =>
         /\ requests = retries
         /\ Len(outcomes) = retries
         /\ Len(delays) = (IF retries = 0 THEN 0 ELSE retries - 1)
         /\ retries >= 1 => error = Err("ApiError", 503, retries)

C3_Witness ==
  /\ outcomes = <<503, 503, 503>>
  /\ pc = "rejected"
  /\ retries = 3

\* C4: after a cancellation during body consumption no chunk is handed to
\* the sink and the invocation rejects with the cancellation error.
C4_NoChunkAfterCancel ==
  abortAt \in {"read", "sink"} =>
    /\ Len(chunks) = snap.chunks
    /\ Settled => (pc = "rejected" /\ error.name = "AbortError")

\* C5: a cancellation during a backoff delay ends the delay: no further
\* second of it passes, the loop does not go to the next attempt, and the
\* invocation rejects with the cancellation error.
C5_CancelEndsBackoff ==
  abortAt = "sleep" =>
    /\ sleepLeft = snap.sleepLeft
    /\ attempt = snap.attempt
    /\ pc = "rejected" => error.name = "AbortError"

\* C6: after a cancellation before an attempt is sent or while its request
\* is in flight, no request is sent, no delay is started, and the invocation
\* rejects with the cancellation error, the attempt being recorded as
\* cancelled, whatever number of attempts is left.
C6_CancelledAttemptNotRetried ==
  (abortAt \in {"start", "fetch", "sleep"} /\ apiKey /\ retries >= 1) =>
    /\ requests = snap.requests
    /\ Len(delays) = snap.delays
    /\ pc \in {abortAt, "rejected"}
    /\ pc = "rejected" =>
         /\ error.name = "AbortError"
         /\ Last(outcomes) = Cancelled
         /\ lastError = error

C6_Witness ==
  /\ abortAt = "fetch"
  /\ pc = "rejected"
  /\ attempt < retries

\* C7: the reader is released at most once, it is not released while the
\* body is being consumed, and it has been released exactly once when the
\* invocation has settled after acquiring it.
C7_ReaderReleasedOnce ==
  /\ releases <= 1
  /\ reader = "none" => releases = 0
  /\ reader = "locked" => (releases = 0 /\ ~Settled)
  /\ reader = "released" => (releases = 1 /\ Settled)

C7_Witness ==
  /\ abortAt \in {"read", "sink"}
  /\ pc = "rejected"
  /\ error.name = "AbortError"
  /\ reader = "released"

\* the chunks of the lines that carry audio, in order
RECURSIVE ChunksOf(_)
ChunksOf(ls) ==
  IF ls = <<>> THEN <<>>
  ELSE LET r == ProcessLine(Head(ls))
       IN  (IF r.kind = "emit" THEN <<r.chunk>> ELSE <<>>)
             \o ChunksOf(Tail(ls))

\* the lines processed when the whole body b arrives as one push
SinglePushLines(b) ==
  LET r     == DecodeStream(NewDecoder, b)
      frags == SplitLines(r.out)
      rest  == EndOfStreamRest(PopLast(frags) \o DecodeFlush(r.d))
  IN  Front(frags) \o (IF rest # <<>> THEN <<rest>> ELSE <<>>)

\* C8: however the body is split into pushes, the chunks handed to the sink
\* are a prefix of the chunks of the single-push run, and all of them once
\* the invocation has resolved.
C8_ChunkingInvariance ==
  mode = "stream" =>
    /\ IsPrefix(chunks, ChunksOf(SinglePushLines(body)))
    /\ pc = "resolved" => chunks = ChunksOf(SinglePushLines(body))

C8_Witness ==
  /\ pc = "resolved"
  /\ body = BodyMultiByte
  /\ cutChar
  /\ chunks # <<>>

\* the trimmed text after the last newline of the whole body
FinalRest(b) == Trim(Last(SplitLines(DecodeAll(b))))

\* C9: once the stream has signalled completion, a non-empty trimmed rest
\* has been processed exactly once, as the last line, and its audio (if any)
\* is the last chunk; an empty rest is not processed; nothing is flushed
\* before completion.
C9_EndOfStreamFlush ==
  mode = "stream" =>
    IF ~eof THEN flushCalls = 0
    ELSE IF FinalRest(body) = <<>> THEN flushCalls = 0
    ELSE /\ flushCalls = 1
         /\ Last(dispatched) = FinalRest(body)
         /\ ProcessLine(FinalRest(body)).kind = "emit" =>
              Last(chunks) = ProcessLine(FinalRest(body)).chunk

C9_Witness ==
  /\ pc = "resolved"
  /\ body = BodyNoTrailingNewline
  /\ Last(chunks) = Hello

\* the lines of the whole body, the rest after the last newline included
AllLines(b) ==
  LET frags == SplitLines(DecodeAll(b))
  IN  Front(frags) \o (IF FinalRest(b) # <<>> THEN <<FinalRest(b)>> ELSE <<>>)

Malformed(line) == ProcessLine(line).kind = "caught"

\* C10: a malformed data line never makes the invocation reject, it yields
\* no chunk, and the lines after it are still processed: a resolved
\* invocation has processed every line and handed over one chunk per
\* audio-bearing line (the malformed line followed by the Hello frame gives
\* the one chunk Hello).
C10_MalformedLineSkipped ==
  mode = "stream" =>
    /\ error.name # "SyntaxError"
    /\ pc = "resolved" =>
         /\ dispatched = AllLines(body)
         /\ Len(chunks) =
              Cardinality({i \in 1..Len(dispatched) :
                             ProcessLine(dispatched[i]).kind = "emit"})
         /\ body = BodyMalformedThenValid => chunks = <<Hello>>

C10_Witness ==
  /\ pc = "resolved"
  /\ body = BodyMalformedThenValid
  /\ \E i \in 1..Len(dispatched) : Malformed(dispatched[i])

\* C11: in generateSpeech a 2xx response without the audio field ends the
\* invocation: it has rejected with the missing-audio error of that attempt,
\* no backoff delay follows the attempt and no further request is sent (the
\* error raised on attempt i leaves i requests and i - 1 delays).
C11_MissingAudioNotRetried ==
  (mode = "single" /\ lastError.name = "NoAudio") =>
    /\ pc = "rejected"
    /\ error = lastError
    /\ requests = lastError.attempt
    /\ Len(delays) = lastError.attempt - 1

\* C12: the chunks handed to the sink are, one to one and in the same order,
\* the audio payloads of the lines processed so far; the lines are processed
\* in the order of the body, none twice and none skipped; a resolved
\* invocation on the two-frame bodies has delivered AB, then Hello.
C12_ChunkOrder ==
  mode = "stream" =>
    /\ chunks = ChunksOf(dispatched)
    /\ IsPrefix(dispatched, AllLines(body))
    /\ (pc = "resolved" /\ body \in {BodyTwoFrames, BodyNoTrailingNewline}) =>
         chunks = <<<<65, 66>>, Hello>>

C12_Witness ==
  /\ pc = "resolved"
  /\ body = BodyTwoFrames
  /\ Len(chunks) = 2
  /\ chunks[1] # chunks[2]
  /\ pos = Len(body)

\* C13: at most one call of the sink is outstanding; one is outstanding
\* exactly while processLine is suspended in it, so none is when a read is
\* pending; and while a call is outstanding no byte is read: the position in
\* the body, the decoder and the buffer stay as they are.
C13_BackPressure ==
  /\ [](/\ inFlight \in {0, 1}
        /\ inFlight = 1 <=> pc = "sink"
        /\ pc = "read" => inFlight = 0)
  /\ [][inFlight > 0 =>
          (pos' = pos /\ decoder' = decoder /\ buffer' = buffer)]_vars

C13_Witness ==
  /\ pc = "sink"
  /\ inFlight = 1
  /\ lines # <<>>
  /\ pos < Len(body)
  /\ ~eof

\* a response with a 2xx status was obtained by generateSpeechStream
Connected == mode = "stream" /\ reader # "none"

\* C14: in generateSpeechStream a 2xx outcome is the last outcome; from then
\* on the invocation only consumes the body or has settled, no request is
\* sent, no delay is started and the attempt counter stays; a failed body
\* read has rejected the invocation with that error; and the chunks handed
\* to the sink only grow at the end, so none is handed over again.
C14_NoRetryAfterConnect ==
  /\ [](mode = "stream" =>
          /\ \A i \in 1..Len(outcomes) :
               ResponseOk(outcomes[i]) => (i = Len(outcomes) /\ Connected)
          /\ Connected => pc \in {"read", "sink", "resolved", "rejected"}
          /\ error.name = "ReadError" => pc = "rejected")
  /\ [][Connected =>
          /\ requests' = requests
          /\ delays' = delays
          /\ attempt' = attempt
          /\ outcomes' = outcomes
          /\ IsPrefix(chunks, chunks')]_vars

C14_Witness ==
  /\ mode = "stream"
  /\ pc = "rejected"
  /\ error.name = "ReadError"
  /\ chunks # <<>>
  /\ attempt < retries
  /\ requests = attempt

\* the delays of the retry loop after k failed attempts out of n
RetryDelays(k, n) ==
  [i \in 1..(IF k < n THEN k ELSE IF n = 0 THEN 0 ELSE n - 1) |-> i * 1000]

\* C15: without cancellation the requests and the delays of an invocation
\* are the same function of the attempt outcomes and of `retries` in both
\* functions: one request per outcome, one delay per failed attempt but the
\* last, and a 2xx outcome is the last one whatever becomes of its payload:
\* no delay and no request follows it.
C15_SameRetryMachine ==
  abortAt = "none" =>
    LET n       == Len(outcomes)
        reached == n > 0 /\ ResponseOk(outcomes[n])
        caught  == n - (IF pc = "text" \/ reached THEN 1 ELSE 0)
    IN  /\ \A i \in 1..(n - 1) : ~ResponseOk(outcomes[i])
        /\ requests = n + (IF pc = "fetch" THEN 1 ELSE 0)
        /\ delays = RetryDelays(caught, retries)
        /\ reached => pc \in {"json", "read", "sink", "resolved", "rejected"}

\* C16: without an apiKey both functions reject with the configuration
\* error as their first step: no request is sent, no attempt is counted, no
\* delay is started, no reader is acquired and the sink is never called.
C16_NoCredential ==
  ~apiKey =>
    /\ requests = 0
    /\ outcomes = <<>>
    /\ attempt = 0
    /\ delays = <<>>
    /\ reader = "none"
    /\ chunks = <<>>
    /\ inFlight = 0
    /\ pc \in {"start", "rejected"}
    /\ pc = "rejected" => error = Err("ConfigError", 0, 0)

C16_Witness ==
  /\ ~apiKey
  /\ pc = "rejected"
  /\ mode = "stream"
  /\ retries = MaxRetries

\* the line is a data line whose payload is the sentinel [DONE]
IsDoneLine(line) ==
  StartsWith(line, DataPrefix) /\ Trim(Slice(line, 6)) = DoneSentinel

\* the lines processed by the step
NewLines == SubSeq(dispatched', Len(dispatched) + 1, Len(dispatched'))

\* the step processes a [DONE] line and no line that carries audio
DoneStep ==
  /\ \E i \in 1..Len(NewLines) : IsDoneLine(NewLines[i])
  /\ \A i \in 1..Len(NewLines) :
       IsDoneLine(NewLines[i]) \/ ProcessLine(NewLines[i]).kind # "emit"

\* the buffer after the step, as split('\n') and pop() (or the flush of the
\* decoder) leave it; processLine itself does not assign it
BufferAfterStep ==
  IF pc = "sink" THEN buffer
  ELSE IF pos' = pos THEN buffer \o DecodeFlush(decoder)
  ELSE PopLast(SplitLines(
         buffer \o DecodeStream(decoder, SubSeq(body, pos + 1, pos')).out))

\* C17: a line `data: [DONE]` gives no chunk and no error: the chunks are
\* those of the other lines and the byte counter is their total length; a
\* step that processes the sentinel (and no audio) leaves chunks, byte
\* counter and error as they were and the buffer as the split left it, and
\* goes on to the next read or resolves; the body with the sentinel resolves
\* with the one chunk AB.
C17_DoneSentinel ==
  /\ [](mode = "stream" =>
          /\ totalBytes = TotalLength(chunks)
          /\ Len(chunks) =
               Cardinality({i \in 1..Len(dispatched) :
                              /\ ~IsDoneLine(dispatched[i])
                              /\ ProcessLine(dispatched[i]).kind = "emit"})
          /\ (pc = "resolved" /\ body = BodyDoneSentinel) =>
               /\ chunks = <<<<65, 66>>>>
               /\ totalBytes = 2
               /\ error = NoError)
  /\ [][DoneStep =>
          /\ chunks' = chunks
          /\ totalBytes' = totalBytes
          /\ error' = error
          /\ buffer' = BufferAfterStep
          /\ pc' \in {"read", "resolved"}]_vars

C17_Witness ==
  /\ pc = "resolved"
  /\ body = BodyDoneSentinel
  /\ dispatched # <<>>
  /\ IsDoneLine(Last(dispatched))
  /\ Last(dispatched) # DataPrefix \o DoneSentinel
  /\ totalBytes = 2

\* the text the decoder has given for the bytes read so far
DecodedSoFar == DecodeStream(NewDecoder, SubSeq(body, 1, pos)).out

\* the lines ls, each followed by a newline
RECURSIVE JoinLines(_)
JoinLines(ls) ==
  IF ls = <<>> THEN <<>> ELSE Head(ls) \o <<NL>> \o JoinLines(Tail(ls))

\* C18: until the stream signals completion the buffer holds no newline;
\* the lines processed, followed by those of the current push that wait for
\* the sink, are exactly the complete lines of the text decoded so far, each
\* once and in order (none waits when a read is pending); and these lines
\* with their newlines, followed by the buffer, are the text decoded so far.
C18_DecodeBuffer ==
  (mode = "stream" /\ ~eof) =>
    /\ \A i \in 1..Len(buffer) : buffer[i] # NL
    /\ dispatched \o lines = Front(SplitLines(DecodedSoFar))
    /\ pc = "read" => lines = <<>>
    /\ JoinLines(dispatched \o lines) \o buffer = DecodedSoFar

C18_Witness ==
  /\ pc = "read"
  /\ body = BodyMultiByte
  /\ dispatched # <<>>
  /\ buffer # <<>>
  /\ decoder.need # 0

\* the chunks handed to the sink by the step
NewChunks == SubSeq(chunks', Len(chunks) + 1, Len(chunks'))

\* C19: a rejection of the sink does not reject the invocation: the step
\* keeps the error unset, keeps the chunks handed over so far and the byte
\* counter (which counts the failed chunk too), and goes on with the next
\* line, the next read or the normal end; once a sink call has failed the
\* chunks are still those of the processed lines, in order, the counter is
\* their total length, and a resolved invocation has handed over the chunks
\* of every line (AB and Hello, 7 bytes, for the two-frame body).
C19_SinkErrorAbsorbed ==
  /\ [](sinkErrors > 0 =>
          /\ totalBytes = TotalLength(chunks)
          /\ chunks = ChunksOf(dispatched)
          /\ pc = "rejected" => error.name \in {"ReadError", "AbortError"}
          /\ pc = "resolved" =>
               /\ chunks = ChunksOf(AllLines(body))
               /\ body = BodyTwoFrames => totalBytes = 7)
  /\ [][sinkErrors' > sinkErrors =>
          /\ IsPrefix(chunks, chunks')
          /\ IsPrefix(dispatched, dispatched')
          /\ totalBytes' = totalBytes + TotalLength(NewChunks)
          /\ error' = error
          /\ pc' \in {"read", "sink", "resolved"}]_vars

C19_Witness ==
  /\ pc = "sink"
  /\ sinkErrors = 1
  /\ chunks = <<<<65, 66>>, Hello>>
  /\ totalBytes = 7

\* C20: under Fairness an invocation with retries >= 1 settles; it never
\* has sent more than `retries` requests; and when it has resolved, one of
\* its attempts returned a status in 200..299.
C20_Termination ==
  /\ (retries >= 1) => <>Settled
  /\ [](retries >= 1 => requests <= retries)
  /\ [](pc = "resolved" =>
          \E i \in 1..Len(outcomes) : outcomes[i] \in 200..299)

C20_Witness ==
  /\ pc = "resolved"
  /\ mode = "stream"
  /\ requests = MaxRetries
  /\ outcomes = <<NetworkFailure, 503, 200>>
  /\ Len(delays) = 2

====
